---- MODULE Spec2Model ----
(***************************************************************************)
(* Key-format converters (src/components/converter/converter.tsx) and the  *)
(* AES output panel (AesOutput).                                           *)
(*                                                                         *)
(* FormatSpec values are PkcsEncodingProps objects.  Objects live in a     *)
(* heap and are named by their reference, so that `from === to` (same      *)
(* reference) and structural equality (same fields) are different things.  *)
(* A conversion is a promise: idle (not yet issued), pending (a provider   *)
(* request is in flight), fulfilled or rejected.                           *)
(***************************************************************************)
EXTENDS Integers, Sequences, FiniteSets, TLC

VARIABLES
    heap,        \* reference -> PkcsEncodingProps fields
    curveName,   \* the curveName field of each ECC converter singleton
    callArgs,    \* call -> arguments of defaultConvert
    promise,     \* call -> state of the promise defaultConvert returned
    invoked,     \* call -> the invoke() requests the call issued, in order
    reply,       \* call -> what the provider answered
    selected,    \* call -> the setCurveName its caller made for it
    output,      \* AesOutput: the `output` React state (the displayed text)
    encodes,     \* AesOutput: one entry per setOutput call, in call order
    codecFormat, \* AesOutput: the format the CharCodec control shows
    codecMounted,\* AesOutput: codecEl.current is set
    edited       \* AesOutput: the user changed the text since the last setOutput

convVars == <<heap, curveName, callArgs, promise, invoked, reply, selected>>
outVars == <<output, encodes, codecFormat, codecMounted, edited>>
vars == <<heap, curveName, callArgs, promise, invoked, reply, selected,
          output, encodes, codecFormat, codecMounted, edited>>

-----------------------------------------------------------------------------
(* Bounds *)

MaxCalls == 2        \* conversions issued concurrently
MaxExtra == 1        \* PkcsEncodingProps built by callers besides PkcsFormats
MaxEncoded == 1      \* objects on which setEncoding has been called
MaxSetOutput == 3    \* setOutput calls on the AES output panel

Calls == 1..MaxCalls
\* One conversion at a time: the calls of the sequential specification.
SeqCalls == {1}

-----------------------------------------------------------------------------
(* Enumerations *)

CurveName == {"nistp256", "nistp384", "nistp521", "secp256k1"}
NIST_P256 == "nistp256"
Pkcs == {"pkcs1", "pkcs8", "sec1"}
KeyFormat == {"pem", "der"}
\* `encoding` is optional: a fresh object has none, and a template literal
\* prints a missing value as "undefined".
Undefined == "undefined"
TextEncoding == {"base64"}

PkcsEncodingProps(pkcs, keyFormat) ==
    [pkcs |-> pkcs, format |-> keyFormat, encoding |-> Undefined]

NoProps == [pkcs |-> "none", format |-> "none", encoding |-> Undefined]

\* The six singletons, by reference.
PkcsFormats ==
    [pkcs8_pem |-> 1, pkcs8_der |-> 2, pkcs1_pem |-> 3,
     pkcs1_der |-> 4, sec1_pem |-> 5, sec1_der |-> 6]

PkcsFormatsInit ==
    <<PkcsEncodingProps("pkcs8", "pem"), PkcsEncodingProps("pkcs8", "der"),
      PkcsEncodingProps("pkcs1", "pem"), PkcsEncodingProps("pkcs1", "der"),
      PkcsEncodingProps("sec1", "pem"), PkcsEncodingProps("sec1", "der")>>

NumFormats == Len(PkcsFormatsInit)
Refs == 1..(NumFormats + MaxExtra)

rsaFormats == {"pkcs8_pem", "pkcs8_der", "sec1_pem", "sec1_der"}
eccFormats == {"pkcs8_pem", "pkcs8_der", "sec1_pem", "sec1_der"}

\* The converter singletons.
RsaConverters == {"rsaPkcsConverter", "rsaEncodingConverter"}
EccConverters == {"eccPkcsConverter", "eccEncodingConverter"}
Converters == RsaConverters \cup EccConverters

-----------------------------------------------------------------------------
(* Inputs *)

KeyPairs == {<<"priv", "pub">>}
ProviderKeyPairs == {<<"priv2", "pub2">>, <<"priv3", "pub3">>}
ProviderErrors == {<<"invalid key">>}
CurveInputs == {"nistp256", "secp256k1"}

Allocated == {r \in Refs : heap[r] # NoProps}
\* The concurrent specification issues these transitions on the singletons.
ParTransitions ==
    {<<PkcsFormats.pkcs1_pem, PkcsFormats.sec1_pem>>,
     <<PkcsFormats.sec1_pem, PkcsFormats.pkcs8_pem>>,
     <<PkcsFormats.sec1_pem, PkcsFormats.sec1_pem>>}

-----------------------------------------------------------------------------
(* Promises and provider requests *)

Idle == [state |-> "idle", value |-> <<>>, reason |-> <<>>]
Pending == [state |-> "pending", value |-> <<>>, reason |-> <<>>]
Fulfilled(v) == [state |-> "fulfilled", value |-> v, reason |-> <<>>]
Rejected(msg) == [state |-> "rejected", value |-> <<>>, reason |-> msg]

NoArgs ==
    [converter |-> "none", privateKey |-> "", publicKey |-> "", from |-> 0, to |-> 0]
NoReply == [kind |-> "none", payload |-> <<>>]
NoSelection == [conv |-> "none", curve |-> "none"]

\* A caller that selected a curve on a converter converts with that converter.
ConvertersOf(c) ==
    IF selected[c] = NoSelection THEN Converters ELSE {selected[c].conv}

\* invoke("rsa_transfer_key", { privateKey, publicKey, from, to })
RsaRequest(privateKey, publicKey, from, to) ==
    [cmd |-> "rsa_transfer_key",
     args |-> [privateKey |-> privateKey, publicKey |-> publicKey,
               from |-> from, to |-> to]]

\* Mutant: the request built with from and to exchanged.
EccRequestSwapped(curve, privateKey, publicKey, from, to) ==
    [cmd |-> "ecc_transfer_key",
     args |-> [curveName |-> curve, privateKey |-> privateKey,
               publicKey |-> publicKey, from |-> to, to |-> from]]

\* invoke("ecc_transfer_key", { curveName, privateKey, publicKey, from, to })
EccRequest(curve, privateKey, publicKey, from, to) ==
    [cmd |-> "ecc_transfer_key",
     args |-> [curveName |-> curve, privateKey |-> privateKey,
               publicKey |-> publicKey, from |-> from, to |-> to]]

\* The template literal of the two `throw new Error(...)`.
UnsupportedMessage(f, t) ==
    <<"unsupported pkcs: ", f.pkcs, " encoding: ", f.encoding,
      " convert pkcs: ", t.pkcs, " encoding: ", t.encoding>>

\* Mutant: the last `case` label missing.
RsaPkcsCaseMissing(f, t) ==
    \/ f.pkcs = "pkcs8" /\ t.pkcs = "pkcs1"
    \/ f.pkcs = "pkcs1" /\ t.pkcs = "pkcs8"
    \/ f.pkcs = "pkcs8" /\ t.pkcs = "pkcs8"

\* The `case` labels of RsaPkcsConverter.convert.
RsaPkcsCase(f, t) ==
    \/ f.pkcs = "pkcs8" /\ t.pkcs = "pkcs1"
    \/ f.pkcs = "pkcs1" /\ t.pkcs = "pkcs8"
    \/ f.pkcs = "pkcs8" /\ t.pkcs = "pkcs8"
    \/ f.pkcs = "pkcs1" /\ t.pkcs = "pkcs1"

\* The `case` labels of EccPkcsConverter.convert.
EccPkcsCase(f, t) ==
    \/ f.pkcs = "pkcs8" /\ t.pkcs = "sec1"
    \/ f.pkcs = "sec1" /\ t.pkcs = "pkcs8"
    \/ f.pkcs = "pkcs8" /\ t.pkcs = "pkcs8"
    \/ f.pkcs = "sec1" /\ t.pkcs = "sec1"

Dispatch(c, request) ==
    /\ invoked' = [invoked EXCEPT ![c] = Append(@, request)]
    /\ promise' = [promise EXCEPT ![c] = Pending]

Throw(c, msg) ==
    /\ invoked' = invoked
    /\ promise' = [promise EXCEPT ![c] = Rejected(msg)]

-----------------------------------------------------------------------------
(* The four convert methods, up to their await *)

RsaPkcsConvert(c, privateKey, publicKey, from, to) ==
    IF RsaPkcsCase(heap[from], heap[to])
    THEN Dispatch(c, RsaRequest(privateKey, publicKey, from, to))
    ELSE Throw(c, UnsupportedMessage(heap[from], heap[to]))

EccPkcsConvert(c, privateKey, publicKey, from, to) ==
    IF EccPkcsCase(heap[from], heap[to])
    THEN Dispatch(c, EccRequest(curveName["eccPkcsConverter"],
                                privateKey, publicKey, from, to))
    ELSE Throw(c, UnsupportedMessage(heap[from], heap[to]))

\* Mutant: the encoding converter validating the containers as the container
\* converter does.
RsaEncodingConvertValidating(c, privateKey, publicKey, from, to) ==
    RsaPkcsConvert(c, privateKey, publicKey, from, to)

RsaEncodingConvert(c, privateKey, publicKey, from, to) ==
    Dispatch(c, RsaRequest(privateKey, publicKey, from, to))

\* Mutant: the curve passed per call (the caller's own selection) instead of
\* read from the instance.
EccEncodingConvertPerCall(c, privateKey, publicKey, from, to) ==
    Dispatch(c, EccRequest(IF selected[c] = NoSelection
                           THEN curveName["eccEncodingConverter"]
                           ELSE selected[c].curve,
                           privateKey, publicKey, from, to))

EccEncodingConvert(c, privateKey, publicKey, from, to) ==
    Dispatch(c, EccRequest(curveName["eccEncodingConverter"],
                           privateKey, publicKey, from, to))

\* this.convert(...): the override of the converter's class.
Convert(c, conv, privateKey, publicKey, from, to) ==
    CASE conv = "rsaPkcsConverter" -> RsaPkcsConvert(c, privateKey, publicKey, from, to)
      [] conv = "eccPkcsConverter" -> EccPkcsConvert(c, privateKey, publicKey, from, to)
      [] conv = "rsaEncodingConverter" ->
            RsaEncodingConvert(c, privateKey, publicKey, from, to)
      [] conv = "eccEncodingConverter" ->
            EccEncodingConvert(c, privateKey, publicKey, from, to)

-----------------------------------------------------------------------------
(* Actions of the converters *)

\* new PkcsEncodingProps(pkcs, keyFormat), by a caller, before it converts.
NewProps(pkcs, keyFormat) ==
    /\ \A c \in Calls : promise[c].state = "idle"
    /\ \E r \in Refs :
          /\ heap[r] = NoProps
          /\ \A q \in Refs : q < r => heap[q] # NoProps
          /\ heap' = [heap EXCEPT ![r] = PkcsEncodingProps(pkcs, keyFormat)]
    /\ UNCHANGED <<curveName, callArgs, promise, invoked, reply, selected>>
    /\ UNCHANGED outVars

\* props.setEncoding(encoding), by a caller, before it converts.
SetEncoding(r, encoding) ==
    /\ \A c \in Calls : promise[c].state = "idle"
    /\ heap[r] # NoProps
    /\ Cardinality({q \in Refs \ {r} : heap[q].encoding # Undefined}) < MaxEncoded
    /\ heap' = [heap EXCEPT ![r].encoding = encoding]
    /\ UNCHANGED <<curveName, callArgs, promise, invoked, reply, selected>>
    /\ UNCHANGED outVars

\* converter.setCurveName(curve), by the caller that will issue call c.
SetCurveName(c, conv, curve) ==
    /\ conv \in EccConverters
    /\ promise[c].state = "idle"
    /\ selected[c] = NoSelection
    /\ curveName' = [curveName EXCEPT ![conv] = curve]
    /\ selected' = [selected EXCEPT ![c] = [conv |-> conv, curve |-> curve]]
    /\ UNCHANGED <<heap, callArgs, promise, invoked, reply>>
    /\ UNCHANGED outVars

\* Mutant: defaultConvert without the identity check.
DefaultConvertNoShortcut(c, conv, privateKey, publicKey, from, to) ==
    /\ promise[c].state = "idle"
    /\ \A d \in Calls : d < c => promise[d].state # "idle"
    /\ callArgs' = [callArgs EXCEPT ![c] =
          [converter |-> conv, privateKey |-> privateKey, publicKey |-> publicKey,
           from |-> from, to |-> to]]
    /\ Convert(c, conv, privateKey, publicKey, from, to)
    /\ UNCHANGED <<heap, curveName, reply, selected>>
    /\ UNCHANGED outVars

\* converter.defaultConvert(privateKey, publicKey, from, to), run to its first
\* await.  Calls are numbered in the order they are issued.
DefaultConvert(c, conv, privateKey, publicKey, from, to) ==
    /\ promise[c].state = "idle"
    /\ \A d \in Calls : d < c => promise[d].state # "idle"
    /\ callArgs' = [callArgs EXCEPT ![c] =
          [converter |-> conv, privateKey |-> privateKey, publicKey |-> publicKey,
           from |-> from, to |-> to]]
    /\ IF from = to
       THEN /\ promise' = [promise EXCEPT ![c] = Fulfilled(<<privateKey, publicKey>>)]
            /\ invoked' = invoked
       ELSE Convert(c, conv, privateKey, publicKey, from, to)
    /\ UNCHANGED <<heap, curveName, reply, selected>>
    /\ UNCHANGED outVars

\* The provider answers the request with a key pair: `return await invoke(...)`.
ProviderResolve(c, keys) ==
    /\ promise[c].state = "pending"
    /\ reply' = [reply EXCEPT ![c] = [kind |-> "ok", payload |-> keys]]
    /\ promise' = [promise EXCEPT ![c] = Fulfilled(keys)]
    /\ UNCHANGED <<heap, curveName, callArgs, invoked, selected>>
    /\ UNCHANGED outVars

\* Mutant: the failure caught and the input returned.
ProviderRejectSwallowed(c, msg) ==
    /\ promise[c].state = "pending"
    /\ reply' = [reply EXCEPT ![c] = [kind |-> "error", payload |-> msg]]
    /\ promise' = [promise EXCEPT ![c] =
          Fulfilled(<<callArgs[c].privateKey, callArgs[c].publicKey>>)]
    /\ UNCHANGED <<heap, curveName, callArgs, invoked, selected>>
    /\ UNCHANGED outVars

\* The provider fails the request: the await throws and nothing catches it.
ProviderReject(c, msg) ==
    /\ promise[c].state = "pending"
    /\ reply' = [reply EXCEPT ![c] = [kind |-> "error", payload |-> msg]]
    /\ promise' = [promise EXCEPT ![c] = Rejected(msg)]
    /\ UNCHANGED <<heap, curveName, callArgs, invoked, selected>>
    /\ UNCHANGED outVars

-----------------------------------------------------------------------------
(* The AES output panel *)

Base64 == "base64"
CharFormatter == {"base64", "hex"}
BytesInputs == {<<1>>, <<2>>}
TypedTexts == {<<"typed">>}

\* charCodecor.encode(format, bytes): the text of `bytes` in `format`, one text
\* per format and byte sequence.
Encode(format, bytes) == <<format>> \o bytes

\* codecEl.current?.getFormat() || CharFormatter.Base64
GetFormat == IF codecMounted THEN codecFormat ELSE Base64

\* The CharCodec control is rendered and its ref attached.
MountCodec ==
    /\ ~codecMounted
    /\ codecMounted' = TRUE
    /\ UNCHANGED <<output, encodes, codecFormat, edited>>
    /\ UNCHANGED convVars

\* The user picks a format in the CharCodec control, which may rewrite the text.
SelectFormat(format) ==
    /\ codecMounted
    /\ format # codecFormat
    /\ codecFormat' = format
    /\ edited' = TRUE
    /\ UNCHANGED <<output, encodes, codecMounted>>
    /\ UNCHANGED convVars

\* ref.setOutput(out): starts the encode and returns.
SetOutput(out) ==
    /\ Len(encodes) < MaxSetOutput
    /\ encodes' = Append(encodes,
          [format |-> GetFormat, bytes |-> out, state |-> "pending"])
    /\ edited' = FALSE
    /\ UNCHANGED <<output, codecFormat, codecMounted>>
    /\ UNCHANGED convVars

\* The k-th encode resolves: .then(setOutput)
EncodeResolve(k) ==
    /\ encodes[k].state = "pending"
    /\ output' = Encode(encodes[k].format, encodes[k].bytes)
    /\ encodes' = [encodes EXCEPT ![k].state = "fulfilled"]
    /\ UNCHANGED <<codecFormat, codecMounted, edited>>
    /\ UNCHANGED convVars

\* The k-th encode fails: .catch(console.log)
EncodeReject(k) ==
    /\ encodes[k].state = "pending"
    /\ encodes' = [encodes EXCEPT ![k].state = "rejected"]
    /\ UNCHANGED <<output, codecFormat, codecMounted, edited>>
    /\ UNCHANGED convVars

\* TextArea onChange={(e) => setOutput(e.target.value)}
TextAreaChange(text) ==
    /\ output # text
    /\ output' = text
    /\ edited' = TRUE
    /\ UNCHANGED <<encodes, codecFormat, codecMounted>>
    /\ UNCHANGED convVars

-----------------------------------------------------------------------------
(* Specifications *)

Init ==
    /\ heap = [r \in Refs |-> IF r <= NumFormats THEN PkcsFormatsInit[r] ELSE NoProps]
    /\ curveName = [conv \in EccConverters |-> NIST_P256]
    /\ callArgs = [c \in Calls |-> NoArgs]
    /\ promise = [c \in Calls |-> Idle]
    /\ invoked = [c \in Calls |-> <<>>]
    /\ reply = [c \in Calls |-> NoReply]
    /\ selected = [c \in Calls |-> NoSelection]
    /\ output = <<>>
    /\ encodes = <<>>
    /\ codecFormat = Base64
    /\ codecMounted = FALSE
    /\ edited = FALSE

\* One conversion, on any objects the caller can hold, with the curves as
\* constructed.
Next ==
    \/ \E pkcs \in Pkcs, keyFormat \in KeyFormat : NewProps(pkcs, keyFormat)
    \/ \E r \in Refs, encoding \in TextEncoding : SetEncoding(r, encoding)
    \/ \E c \in SeqCalls, conv \in Converters, keys \in KeyPairs,
          from \in Allocated, to \in Allocated :
          DefaultConvert(c, conv, keys[1], keys[2], from, to)
    \/ \E c \in SeqCalls, keys \in ProviderKeyPairs : ProviderResolve(c, keys)
    \/ \E c \in SeqCalls, msg \in ProviderErrors : ProviderReject(c, msg)

Spec == Init /\ [][Next]_vars

\* Concurrent conversions on the singletons.
NextPar ==
    \/ \E c \in Calls, conv \in EccConverters, curve \in CurveInputs :
          SetCurveName(c, conv, curve)
    \/ \E c \in Calls : \E conv \in ConvertersOf(c), keys \in KeyPairs,
                            tr \in ParTransitions :
          DefaultConvert(c, conv, keys[1], keys[2], tr[1], tr[2])
    \/ \E c \in Calls, keys \in ProviderKeyPairs : ProviderResolve(c, keys)
    \/ \E c \in Calls, msg \in ProviderErrors : ProviderReject(c, msg)

SpecPar == Init /\ [][NextPar]_vars

\* The AES output panel.
NextOut ==
    \/ MountCodec
    \/ \E format \in CharFormatter : SelectFormat(format)
    \/ \E out \in BytesInputs : SetOutput(out)
    \/ \E k \in DOMAIN encodes : EncodeResolve(k)
    \/ \E k \in DOMAIN encodes : EncodeReject(k)
    \/ \E text \in TypedTexts : TextAreaChange(text)

SpecOut == Init /\ [][NextOut]_vars

-----------------------------------------------------------------------------
(* Vocabulary of the properties *)

Issued(c) == promise[c].state # "idle"
From(c) == heap[callArgs[c].from]
To(c) == heap[callArgs[c].to]
SameObject(c) == callArgs[c].from = callArgs[c].to
StructurallyEqual(f, t) ==
    f.pkcs = t.pkcs /\ f.format = t.format /\ f.encoding = t.encoding
ReturnedInput(c) ==
    promise[c] = Fulfilled(<<callArgs[c].privateKey, callArgs[c].publicKey>>)
\* Rejected by the converter itself: no provider was asked.
LocallyRejected(c) ==
    /\ promise[c].state = "rejected"
    /\ reply[c].kind = "none"
    /\ promise[c].reason[1] = "unsupported pkcs: "
Family(conv) == IF conv \in RsaConverters THEN "rsa" ELSE "ecc"
ContainerConverters == {"rsaPkcsConverter", "eccPkcsConverter"}
EncodingConverters == {"rsaEncodingConverter", "eccEncodingConverter"}
\* The documented legality table.
LegalTable ==
    [rsa |-> {<<"pkcs1", "pkcs8">>, <<"pkcs8", "pkcs1">>,
              <<"pkcs8", "pkcs8">>, <<"pkcs1", "pkcs1">>},
     ecc |-> {<<"pkcs8", "sec1">>, <<"sec1", "pkcs8">>,
              <<"pkcs8", "pkcs8">>, <<"sec1", "sec1">>}]
Legal(c) == <<From(c).pkcs, To(c).pkcs>> \in LegalTable[Family(callArgs[c].converter)]

-----------------------------------------------------------------------------
(* Properties *)

\* C1: a conversion whose from and to are structurally equal (same container,
\* same serialization, same text encoding), whether or not they are the same
\* object, returns exactly the input pair and issues no provider call.
C1_IdentityLaw ==
    \A c \in Calls :
        (Issued(c) /\ StructurallyEqual(From(c), To(c)))
            => (ReturnedInput(c) /\ invoked[c] = <<>>)

\* C2, as stated: a container converter answers every request of a legal
\* (family, from, to) with exactly one provider call, and rejects every other
\* request locally with no provider call.
C2_LegalityTable ==
    \A c \in Calls :
        (Issued(c) /\ callArgs[c].converter \in ContainerConverters)
            => IF Legal(c)
               THEN Len(invoked[c]) = 1 /\ ~LocallyRejected(c)
               ELSE LocallyRejected(c) /\ invoked[c] = <<>>

\* C2, amended: the same, for the requests whose from and to are not one and
\* the same object (those are answered by the identity check before the table
\* is consulted).
C2_LegalityTableNotIdentical ==
    \A c \in Calls :
        (Issued(c) /\ callArgs[c].converter \in ContainerConverters /\ ~SameObject(c))
            => IF Legal(c)
               THEN Len(invoked[c]) = 1 /\ ~LocallyRejected(c)
               ELSE LocallyRejected(c) /\ invoked[c] = <<>>

\* C2's case: the EC container converter took SEC1 -> SEC1 between two
\* serializations to the provider.
C2_Witness ==
    \E c \in Calls :
        /\ callArgs[c].converter = "eccPkcsConverter"
        /\ ~SameObject(c)
        /\ From(c).pkcs = "sec1" /\ To(c).pkcs = "sec1"
        /\ Len(invoked[c]) = 1

\* C3: a local rejection is raised before any provider call and carries the
\* key family, the from container and format and the to container and format:
\* two rejections with the same message agree on all of them.
C3_RejectionCarries ==
    \A c, d \in Calls :
        (LocallyRejected(c) /\ LocallyRejected(d))
            => /\ invoked[c] = <<>>
               /\ (promise[c].reason = promise[d].reason
                     => /\ Family(callArgs[c].converter) = Family(callArgs[d].converter)
                        /\ From(c).pkcs = From(d).pkcs /\ From(c).format = From(d).format
                        /\ To(c).pkcs = To(d).pkcs /\ To(c).format = To(d).format)

\* C4: an encoding converter hands every request that is not answered by the
\* identity check to the provider, exactly once, whatever the containers, and
\* never rejects it locally.
C4_EncodingNoValidation ==
    \A c \in Calls :
        (Issued(c) /\ callArgs[c].converter \in EncodingConverters /\ ~SameObject(c))
            => (Len(invoked[c]) = 1 /\ ~LocallyRejected(c))

\* C4's case: an encoding converter took a transition outside its family's
\* table to the provider.
C4_Witness ==
    \E c \in Calls :
        /\ callArgs[c].converter \in EncodingConverters
        /\ Issued(c) /\ ~SameObject(c) /\ ~Legal(c)
        /\ Len(invoked[c]) = 1

C6_ProviderFailureSurfaced ==
    \A c \in Calls :
        /\ Len(invoked[c]) <= 1
        /\ reply[c].kind = "error" => promise[c] = Rejected(reply[c].payload)

\* C6's case: the provider failed a request.
C6_Witness ==
    \E c \in Calls : reply[c].kind = "error" /\ Len(invoked[c]) = 1

\* C7: an ECC request carries the curve the instance holds when the request is
\* issued, whoever wrote it last, and a request once issued is never altered.
C7_CurveOfInstance ==
    [][\A c \in Calls :
          /\ (invoked[c] = <<>> /\ invoked'[c] # <<>>
                /\ callArgs'[c].converter \in EccConverters)
               => invoked'[c][1].args.curveName = curveName[callArgs'[c].converter]
          /\ invoked[c] # <<>> => invoked'[c] = invoked[c]]_vars

\* C7's case: two conversions in flight on one ECC instance, each with its own
\* curve selected, and the earlier one's request carries the later one's curve.
C7_Hazard ==
    \E c, d \in Calls :
        /\ c < d
        /\ promise[c].state = "pending" /\ promise[d].state = "pending"
        /\ callArgs[c].converter \in EccConverters
        /\ callArgs[d].converter = callArgs[c].converter
        /\ selected[c].conv = callArgs[c].converter
        /\ selected[d].conv = callArgs[c].converter
        /\ selected[c].curve # selected[d].curve
        /\ invoked[c][1].args.curveName = selected[d].curve

\* C8: identity check, then validation, then dispatch: a request whose from
\* and to are the same object is answered with the input pair and no provider
\* call, legal or not; a provider call is issued only for a request that is
\* not such, and by a container converter only for a legal transition.
C8_StepOrder ==
    \A c \in Calls :
        /\ (Issued(c) /\ SameObject(c)) => (ReturnedInput(c) /\ invoked[c] = <<>>)
        /\ invoked[c] # <<>> =>
              /\ ~SameObject(c)
              /\ callArgs[c].converter \in ContainerConverters => Legal(c)

\* C8's case: the RSA container converter answered SEC1 -> SEC1 on one object
\* with the input pair.
C8_Witness ==
    \E c \in Calls :
        /\ callArgs[c].converter = "rsaPkcsConverter"
        /\ SameObject(c)
        /\ From(c).pkcs = "sec1"
        /\ ReturnedInput(c)

\* C9: every two distinct formats offered for a family are a transition the
\* family's container converter accepts, and every container legal for a
\* family is offered for it in PEM and in DER.
C9_OfferedFormatsLegal ==
    /\ \A c \in Calls :
          LET offered == IF Family(callArgs[c].converter) = "rsa"
                         THEN rsaFormats ELSE eccFormats
          IN  (/\ Issued(c)
               /\ callArgs[c].converter \in ContainerConverters
               /\ ~SameObject(c)
               /\ \E v, w \in offered :
                     callArgs[c].from = PkcsFormats[v] /\ callArgs[c].to = PkcsFormats[w])
                  => ~LocallyRejected(c)
    /\ \A pkcs \in {"pkcs1", "pkcs8"}, keyFormat \in KeyFormat :
          \E v \in rsaFormats :
              PkcsFormatsInit[PkcsFormats[v]] = PkcsEncodingProps(pkcs, keyFormat)
    /\ \A pkcs \in {"pkcs8", "sec1"}, keyFormat \in KeyFormat :
          \E v \in eccFormats :
              PkcsFormatsInit[PkcsFormats[v]] = PkcsEncodingProps(pkcs, keyFormat)

\* C10: once every encode has settled and the user has not touched the text
\* since the last setOutput, the text shown is the encoding of the most recent
\* setOutput whose encode succeeded, in the format read at that call.
C10_LastCallWins ==
    LET done == {k \in DOMAIN encodes : encodes[k].state = "fulfilled"}
    IN  (/\ done # {}
         /\ \A k \in DOMAIN encodes : encodes[k].state # "pending"
         /\ ~edited)
            => \E k \in done :
                  /\ \A j \in done : j <= k
                  /\ output = Encode(encodes[k].format, encodes[k].bytes)

====
